---- MODULE Spec2Model ----
(***************************************************************************)
(* ShenandoahHeapRegionCounters: the heap-region sampler of the Shenandoah *)
(* collector (shenandoahHeapRegionCounters.cpp).  update() is called by    *)
(* any number of threads; a compare-and-swap on _last_sample_millis lets   *)
(* at most one caller per sampling interval through, and the winner        *)
(* publishes the heap status word, a timestamp and one packed word per     *)
(* heap region to the perf counters, and optionally a snapshot to a log.   *)
(***************************************************************************)
EXTENDS Integers, Sequences, FiniteSets, TLC

(***************************************************************************)
(* Bounds of the model.                                                    *)
(***************************************************************************)
\* number of threads calling update()
NThreads == 2
\* the monotonic millisecond clock runs from 0 to MaxTime when callers are
\* concurrent, and from 0 to MaxTimeSeq in the runs of a single caller
MaxTime == 4
MaxTimeSeq == 2
\* the sampling interval, in milliseconds (the flag's default is 40)
ShenandoahRegionSamplingRate == 1
\* heap->num_regions(), fixed for the life of the sampler
NumRegions == 2

Threads == 1..NThreads
Regions == 0..(NumRegions - 1)

(***************************************************************************)
(* jlong words.  A 64-bit word is the set of its set bit positions, so     *)
(* that shifts up to bit 63 stay exact; small values convert both ways.    *)
(***************************************************************************)
WordBits == 0..63
SmallBits == 0..20

BitsOf(x) == {b \in SmallBits : (x \div (2 ^ b)) % 2 = 1}

RECURSIVE ValueOf(_)
ValueOf(S) == IF S = {} THEN 0
              ELSE LET b == CHOOSE x \in S : TRUE
                   IN  (2 ^ b) + ValueOf(S \ {b})

\* a variant that shifts without masking: v << shift
MaskShift_NoMask(v, mask, shift) ==
    {b + shift : b \in BitsOf(v)} \cap WordBits

\* (v & mask) << shift, as a jlong
MaskShift(v, mask, shift) ==
    {b + shift : b \in (BitsOf(v) \cap BitsOf(mask))} \cap WordBits

\* (word >> shift) & mask : what an external decoder reads back
Extract(word, mask, shift) ==
    ValueOf({b \in BitsOf(mask) : (b + shift) \in word})

(***************************************************************************)
(* Layout of the region word (shenandoahHeapRegionCounters.hpp).           *)
(***************************************************************************)
PERCENT_MASK == 127
AGE_MASK == 31
AFFILIATION_MASK == 3
STATUS_MASK == 63

USED_SHIFT == 0
LIVE_SHIFT == 7
TLAB_SHIFT == 14
GCLAB_SHIFT == 21
SHARED_SHIFT == 28
PLAB_SHIFT == 35
AGE_SHIFT == 51
AFFILIATION_SHIFT == 56
STATUS_SHIFT == 58

(***************************************************************************)
(* The collector state as update() sees it: the answers of the heap's      *)
(* read-only queries.  Each query is a separate unsynchronised read, so    *)
(* every combination of answers can be observed.                           *)
(***************************************************************************)
GenerationModes == {"GLOBAL", "OLD", "YOUNG"}

HeapViews ==
    [is_idle : BOOLEAN,
     is_evacuation_in_progress : BOOLEAN,
     is_update_refs_in_progress : BOOLEAN,
     is_concurrent_mark_in_progress : BOOLEAN,
     is_generational : BOOLEAN,
     active_generation : GenerationModes,
     is_concurrent_old_mark_in_progress : BOOLEAN,
     is_degenerated_gc_in_progress : BOOLEAN,
     is_full_gc_in_progress : BOOLEAN]

\* a variant that tests for concurrent marking first
encode_phase_MarkFirst(heap) ==
    IF heap.is_concurrent_mark_in_progress THEN 1
    ELSE IF heap.is_evacuation_in_progress THEN 2
    ELSE IF heap.is_update_refs_in_progress THEN 3
    ELSE 0

\* static int encode_phase(ShenandoahHeap* heap); the value a product build
\* returns (the assert of line 143 is compiled out there)
encode_phase(heap) ==
    IF heap.is_evacuation_in_progress THEN 2
    ELSE IF heap.is_update_refs_in_progress THEN 3
    ELSE IF heap.is_concurrent_mark_in_progress THEN 1
    ELSE 0

\* a variant without the assert
encode_phase_asserts_Never(heap) == FALSE

\* assert(heap->is_idle(), "What is it doing?") of encode_phase fails
encode_phase_asserts(heap) ==
    /\ ~heap.is_evacuation_in_progress
    /\ ~heap.is_update_refs_in_progress
    /\ ~heap.is_concurrent_mark_in_progress
    /\ ~heap.is_idle

\* a variant that puts the young lane on bits 6-7
get_generation_shift_YoungHigh(generation) ==
    CASE generation = "GLOBAL" -> 0
      [] generation = "OLD"    -> 2
      [] generation = "YOUNG"  -> 6

\* static int get_generation_shift(ShenandoahGeneration* generation)
get_generation_shift(generation) ==
    CASE generation = "GLOBAL" -> 0
      [] generation = "OLD"    -> 2
      [] generation = "YOUNG"  -> 4

\* the bit "status |= (1 << 2)" sets while old marking is in progress
OldMarkBits(heap) ==
    IF heap.is_concurrent_old_mark_in_progress THEN MaskShift(1, 1, 2) ELSE {}

\* encode_heap_status past its idle check: the lanes and the two mode bits
encode_busy_status(heap) ==
    LET lanes ==
          IF ~heap.is_generational
          THEN BitsOf(encode_phase(heap))
          ELSE MaskShift(encode_phase(heap), 3,
                         get_generation_shift(heap.active_generation))
               \cup OldMarkBits(heap)
        degen == IF heap.is_degenerated_gc_in_progress
                 THEN MaskShift(1, 1, 6) ELSE {}
        full  == IF heap.is_full_gc_in_progress
                 THEN MaskShift(1, 1, 7) ELSE {}
    IN  ValueOf(lanes \cup degen \cup full)

\* a variant without the early return for an idle heap
encode_heap_status_NoIdleCheck(heap) == encode_busy_status(heap)

\* jlong ShenandoahHeapRegionCounters::encode_heap_status(ShenandoahHeap* heap)
encode_heap_status(heap) ==
    IF heap.is_idle THEN 0 ELSE encode_busy_status(heap)

\* encode_heap_status reaches the failing assert (debug builds only)
encode_heap_status_asserts(heap) ==
    ~heap.is_idle /\ encode_phase_asserts(heap)

(***************************************************************************)
(* A heap region as the sampling loop reads it.                            *)
(***************************************************************************)
Sample(u, l, tl, gl, pl, sh, ag, af, st) ==
    [used |-> u, live |-> l, tlab |-> tl, gclab |-> gl, plab |-> pl,
     shared |-> sh, age |-> ag, affiliation |-> af, state |-> st]

\* a variant that divides before it scales
Ratio_DivideFirst(raw, rs) == (raw \div rs) * 100

\* 100 * raw / rs, in integer arithmetic
Ratio(raw, rs) == (100 * raw) \div rs

\* the body of the loop of update(): the word built for region r
encode_region(r, rs) ==
    MaskShift(Ratio(r.used, rs),   PERCENT_MASK, USED_SHIFT)
    \cup MaskShift(Ratio(r.live, rs),   PERCENT_MASK, LIVE_SHIFT)
    \cup MaskShift(Ratio(r.tlab, rs),   PERCENT_MASK, TLAB_SHIFT)
    \cup MaskShift(Ratio(r.gclab, rs),  PERCENT_MASK, GCLAB_SHIFT)
    \cup MaskShift(Ratio(r.plab, rs),   PERCENT_MASK, PLAB_SHIFT)
    \cup MaskShift(Ratio(r.shared, rs), PERCENT_MASK, SHARED_SHIFT)
    \cup MaskShift(r.age, AGE_MASK, AGE_SHIFT)
    \cup MaskShift(r.affiliation, AFFILIATION_MASK, AFFILIATION_SHIFT)
    \cup MaskShift(r.state, STATUS_MASK, STATUS_SHIFT)

(***************************************************************************)
(* State.                                                                  *)
(***************************************************************************)
VARIABLES
    \* configuration, read once and never changed
    UsePerfData, ShenandoahRegionSampling, ShenandoahLogRegionSampling,
    debug_build,            \* asserts are compiled in
    region_size_bytes,      \* ShenandoahHeapRegion::region_size_bytes()
    \* what the constructor created
    perf_created,           \* _timestamp, _status and _regions_data exist
    log_created,            \* _log_file exists
    \* the environment
    clock,                  \* the monotonic clock, in milliseconds
    region,                 \* region index -> the region's current values
    heap_lock,              \* the thread holding heap->lock(), or 0
    vm_aborted,             \* a failed assert has stopped the VM
    \* the sampler
    last_sample_millis,     \* _last_sample_millis
    status,                 \* the value of the _status counter
    timestamp,              \* the value of the _timestamp counter
    regions_data,           \* region index -> the value of _regions_data[i]
    log_file,               \* the number of snapshots written to _log_file
    \* each thread's position in update() and its locals
    pc, current, last, idx,
    \* history
    wins,                   \* the `current` of every call that won the CAS
    batch,                  \* the calls since no call was last in flight
    pub,                    \* thread -> what its pass has published so far
    status_view,            \* the heap view the _status counter was built from
    sampled                 \* region index -> the values its counter was built from

config == <<UsePerfData, ShenandoahRegionSampling, ShenandoahLogRegionSampling,
            debug_build, region_size_bytes, perf_created, log_created>>
sinks == <<status, timestamp, regions_data, log_file>>
locals == <<pc, current, last, idx>>
history == <<wins, batch, pub, status_view, sampled>>
vars == <<config, clock, region, heap_lock, vm_aborted, last_sample_millis,
          sinks, locals, history>>

ZeroSample == Sample(0, 0, 0, 0, 0, 0, 0, 0, 0)

IdleView ==
    [is_idle |-> TRUE,
     is_evacuation_in_progress |-> FALSE,
     is_update_refs_in_progress |-> FALSE,
     is_concurrent_mark_in_progress |-> FALSE,
     is_generational |-> FALSE,
     active_generation |-> "GLOBAL",
     is_concurrent_old_mark_in_progress |-> FALSE,
     is_degenerated_gc_in_progress |-> FALSE,
     is_full_gc_in_progress |-> FALSE]

Pub(what, i) == [what |-> what, index |-> i]

\* batch.crossing: every call of the batch read the same time batch.now, and
\* that time was past the interval when the batch began; batch.several: the
\* batch has more than one call; batch.passes: the calls of it that won
NoBatch == [now |-> 0, crossing |-> FALSE, several |-> FALSE, passes |-> 0]

(***************************************************************************)
(* Construction: ShenandoahHeapRegionCounters().  The perf counters are    *)
(* created with value 0, and only if UsePerfData and                       *)
(* ShenandoahRegionSampling are both on.  perf says which values           *)
(* UsePerfData may have and builds whether asserts may be compiled in;     *)
(* sizes and samples are the region sizes and the region contents the heap *)
(* may have.                                                               *)
(***************************************************************************)
InitOf(perf, builds, sizes, samples) ==
    /\ UsePerfData \in perf
    /\ ShenandoahRegionSampling \in BOOLEAN
    /\ ShenandoahLogRegionSampling \in BOOLEAN
    /\ debug_build \in builds
    /\ region_size_bytes \in sizes
    /\ perf_created = (UsePerfData /\ ShenandoahRegionSampling)
    /\ log_created = (UsePerfData /\ ShenandoahRegionSampling
                        /\ ShenandoahLogRegionSampling)
    /\ clock = 0
    /\ region \in [Regions -> samples]
    /\ heap_lock = 0
    /\ vm_aborted = FALSE
    /\ last_sample_millis = 0
    /\ status = 0
    /\ timestamp = 0
    /\ regions_data = [i \in Regions |-> {}]
    /\ log_file = 0
    /\ pc = [t \in Threads |-> "idle"]
    /\ current = [t \in Threads |-> 0]
    /\ last = [t \in Threads |-> 0]
    /\ idx = [t \in Threads |-> 0]
    /\ wins = <<>>
    /\ batch = NoBatch
    /\ pub = [t \in Threads |-> <<>>]
    /\ status_view = IdleView
    /\ sampled = [i \in Regions |-> ZeroSample]

\* the perf counters exist: UsePerfData is on by default
InitWith(builds, sizes, samples) == InitOf({TRUE}, builds, sizes, samples)

(***************************************************************************)
(* The environment: time passes, and the heap changes its regions while    *)
(* nobody else holds the heap lock.                                        *)
(***************************************************************************)
Tick(limit) ==
    /\ ~vm_aborted
    /\ clock < limit
    /\ clock' = clock + 1
    /\ UNCHANGED <<config, region, heap_lock, vm_aborted, last_sample_millis,
                   sinks, locals, history>>

Mutate(samples) ==
    /\ ~vm_aborted
    /\ heap_lock = 0
    /\ \E i \in Regions, s \in samples :
          region' = [region EXCEPT ![i] = s]
    /\ UNCHANGED <<config, clock, heap_lock, vm_aborted, last_sample_millis,
                   sinks, locals, history>>

(***************************************************************************)
(* update(), one action per step of a calling thread.                      *)
(***************************************************************************)
AllIdle == \A t \in Threads : pc[t] = "idle"

\* a variant that sets the timestamp before the status
PassOrder_TimestampFirst ==
    <<"timestamp", "status", "lock", "regions", "log", "unlock", "return">>

\* a variant whose region loop runs before the locker's scope opens
PassOrder_LoopBeforeLock ==
    <<"status", "timestamp", "regions", "lock", "log", "unlock", "return">>

\* the statements of a pass, in program order
PassOrder ==
    <<"status", "timestamp", "lock", "regions", "log", "unlock", "return">>

\* the statement after statement l
After(l) ==
    PassOrder[1 + CHOOSE k \in 1..(Len(PassOrder) - 1) : PassOrder[k] = l]

\* the calls that overlap: a new batch starts when a call enters while no
\* other call is in flight
BatchEnter ==
    IF AllIdle
    THEN IF clock - last_sample_millis > ShenandoahRegionSamplingRate
         THEN [now |-> clock, crossing |-> TRUE, several |-> FALSE,
               passes |-> 0]
         ELSE NoBatch
    ELSE IF batch.crossing /\ clock = batch.now
         THEN [batch EXCEPT !.several = TRUE]
         ELSE NoBatch

BatchWin == IF batch.crossing THEN [batch EXCEPT !.passes = @ + 1] ELSE batch

\* jlong current = nanos_to_millis(os::javaTimeNanos());
ReadClock(t) ==
    /\ current' = [current EXCEPT ![t] = clock]
    /\ pc' = [pc EXCEPT ![t] = "read_last"]
    /\ batch' = BatchEnter
    /\ UNCHANGED <<config, clock, region, heap_lock, vm_aborted,
                   last_sample_millis, sinks, last, idx, wins, pub,
                   status_view, sampled>>

\* update() with ShenandoahRegionSampling off: nothing to do
SkipAll(t) ==
    /\ pc' = [pc EXCEPT ![t] = "return"]
    /\ UNCHANGED <<config, clock, region, heap_lock, vm_aborted,
                   last_sample_millis, sinks, current, last, idx, history>>

\* a variant that samples whatever the flag says
Enter_IgnoresFlag(t) ==
    /\ ~vm_aborted
    /\ pc[t] = "idle"
    /\ ReadClock(t)

\* void update() { if (ShenandoahRegionSampling) { ...
Enter(t) ==
    /\ ~vm_aborted
    /\ pc[t] = "idle"
    /\ IF ShenandoahRegionSampling THEN ReadClock(t) ELSE SkipAll(t)

\* jlong last = _last_sample_millis;
ReadLast(t) ==
    /\ ~vm_aborted
    /\ pc[t] = "read_last"
    /\ last' = [last EXCEPT ![t] = last_sample_millis]
    /\ pc' = [pc EXCEPT ![t] = "gate"]
    /\ UNCHANGED <<config, clock, region, heap_lock, vm_aborted,
                   last_sample_millis, sinks, current, idx, history>>

\* a variant that lets the boundary through
IntervalPassed_Inclusive(cur, lst) == cur - lst >= ShenandoahRegionSamplingRate

\* current - last > ShenandoahRegionSamplingRate
IntervalPassed(cur, lst) == cur - lst > ShenandoahRegionSamplingRate

\* a variant that stores without comparing
cmpxchg_store(dest, compare_value, exchange_value) ==
    [dest |-> exchange_value, old |-> compare_value]

\* Atomic::cmpxchg(dest, compare_value, exchange_value): the new value of
\* dest and the value returned
cmpxchg(dest, compare_value, exchange_value) ==
    [dest |-> IF dest = compare_value THEN exchange_value ELSE dest,
     old  |-> dest]

\* if (current - last > Rate && Atomic::cmpxchg(...) == last) { ... }
Gate(t) ==
    /\ ~vm_aborted
    /\ pc[t] = "gate"
    /\ LET cas == cmpxchg(last_sample_millis, last[t], current[t])
       IN  IF IntervalPassed(current[t], last[t])
           THEN /\ last_sample_millis' = cas.dest
                /\ IF cas.old = last[t]
                   THEN /\ pc' = [pc EXCEPT ![t] = PassOrder[1]]
                        /\ wins' = Append(wins, current[t])
                        /\ batch' = BatchWin
                   ELSE /\ pc' = [pc EXCEPT ![t] = "return"]
                        /\ UNCHANGED <<wins, batch>>
           ELSE /\ pc' = [pc EXCEPT ![t] = "return"]
                /\ UNCHANGED <<last_sample_millis, wins, batch>>
    /\ current' = [current EXCEPT ![t] = 0]
    /\ last' = [last EXCEPT ![t] = 0]
    /\ UNCHANGED <<config, clock, region, heap_lock, vm_aborted, sinks,
                   idx, pub, status_view, sampled>>

\* _status->set_value(encode_heap_status(heap)); views are the collector
\* states the heap may report
UpdateStatus(t, views) ==
    /\ ~vm_aborted
    /\ pc[t] = "status"
    /\ perf_created
    /\ \E heap \in views :
          IF debug_build /\ encode_heap_status_asserts(heap)
          THEN /\ vm_aborted' = TRUE
               /\ pc' = [pc EXCEPT ![t] = "aborted"]
               /\ UNCHANGED <<status, pub, status_view>>
          ELSE /\ status' = encode_heap_status(heap)
               /\ status_view' = heap
               /\ pub' = [pub EXCEPT ![t] = Append(@, Pub("status", 0))]
               /\ pc' = [pc EXCEPT ![t] = After("status")]
               /\ UNCHANGED vm_aborted
    /\ UNCHANGED <<config, clock, region, heap_lock, last_sample_millis,
                   timestamp, regions_data, log_file, current, last, idx,
                   wins, batch, sampled>>

\* _timestamp->set_value(os::elapsed_counter());
UpdateTimestamp(t) ==
    /\ ~vm_aborted
    /\ pc[t] = "timestamp"
    /\ perf_created
    /\ timestamp' = clock
    /\ pub' = [pub EXCEPT ![t] = Append(@, Pub("timestamp", 0))]
    /\ pc' = [pc EXCEPT ![t] = After("timestamp")]
    /\ UNCHANGED <<config, clock, region, heap_lock, vm_aborted,
                   last_sample_millis, status, regions_data, log_file,
                   current, last, idx, wins, batch, status_view, sampled>>

\* ShenandoahHeapLocker locker(heap->lock()); blocks until the lock is free
Lock(t) ==
    /\ ~vm_aborted
    /\ pc[t] = "lock"
    /\ heap_lock = 0
    /\ heap_lock' = t
    /\ idx' = [idx EXCEPT ![t] = 0]
    /\ pc' = [pc EXCEPT ![t] = After("lock")]
    /\ UNCHANGED <<config, clock, region, vm_aborted, last_sample_millis,
                   sinks, current, last, history>>

\* a variant that writes the log whatever the flag says
AfterRegions_AlwaysLog == After("regions")

\* after the loop: the log write if logging is on, else the end of the scope
AfterRegions ==
    IF ShenandoahLogRegionSampling THEN After("regions") ELSE After("log")

\* the six ratios and the age, affiliation and state of r all fit their bits
Fits(r, rs) ==
    /\ \A raw \in {r.used, r.live, r.tlab, r.gclab, r.plab, r.shared} :
          Ratio(raw, rs) <= PERCENT_MASK
    /\ r.age <= AGE_MASK
    /\ r.affiliation <= AFFILIATION_MASK
    /\ r.state <= STATUS_MASK

\* a variant that stops the VM on a value that does not fit its bits
SampleRegion_Guarded(t) ==
    /\ ~vm_aborted
    /\ pc[t] = "regions"
    /\ perf_created
    /\ LET i == idx[t]
           r == region[i]
       IN  IF Fits(r, region_size_bytes)
           THEN /\ regions_data' =
                      [regions_data EXCEPT
                          ![i] = encode_region(r, region_size_bytes)]
                /\ sampled' = [sampled EXCEPT ![i] = r]
                /\ pub' = [pub EXCEPT ![t] = Append(@, Pub("region", i))]
                /\ idx' = [idx EXCEPT ![t] = i + 1]
                /\ pc' = [pc EXCEPT ![t] =
                             IF i + 1 < NumRegions THEN "regions"
                                                   ELSE AfterRegions]
                /\ UNCHANGED vm_aborted
           ELSE /\ vm_aborted' = TRUE
                /\ pc' = [pc EXCEPT ![t] = "aborted"]
                /\ UNCHANGED <<regions_data, sampled, pub, idx>>
    /\ UNCHANGED <<config, clock, region, heap_lock,
                   last_sample_millis, status, timestamp, log_file,
                   current, last, wins, batch, status_view>>

\* a variant whose every iteration writes the counter of region 0
SampleRegion_FirstCounter(t) ==
    /\ ~vm_aborted
    /\ pc[t] = "regions"
    /\ perf_created
    /\ LET i == idx[t]
           r == region[i]
       IN  /\ regions_data' =
                 [regions_data EXCEPT ![0] = encode_region(r, region_size_bytes)]
           /\ sampled' = [sampled EXCEPT ![0] = r]
           /\ pub' = [pub EXCEPT ![t] = Append(@, Pub("region", 0))]
           /\ idx' = [idx EXCEPT ![t] = i + 1]
           /\ pc' = [pc EXCEPT ![t] =
                        IF i + 1 < NumRegions THEN "regions" ELSE AfterRegions]
    /\ UNCHANGED <<config, clock, region, heap_lock, vm_aborted,
                   last_sample_millis, status, timestamp, log_file,
                   current, last, wins, batch, status_view>>

\* one iteration of for (uint i = 0; i < num_regions; i++) { ... }
SampleRegion(t) ==
    /\ ~vm_aborted
    /\ pc[t] = "regions"
    /\ perf_created
    /\ LET i == idx[t]
           r == region[i]
       IN  /\ regions_data' =
                 [regions_data EXCEPT ![i] = encode_region(r, region_size_bytes)]
           /\ sampled' = [sampled EXCEPT ![i] = r]
           /\ pub' = [pub EXCEPT ![t] = Append(@, Pub("region", i))]
           /\ idx' = [idx EXCEPT ![t] = i + 1]
           /\ pc' = [pc EXCEPT ![t] =
                        IF i + 1 < NumRegions THEN "regions" ELSE AfterRegions]
    /\ UNCHANGED <<config, clock, region, heap_lock, vm_aborted,
                   last_sample_millis, status, timestamp, log_file,
                   current, last, wins, batch, status_view>>

\* _log_file->write_snapshot(_regions_data, _timestamp, _status, ...)
WriteSnapshot(t) ==
    /\ ~vm_aborted
    /\ pc[t] = "log"
    /\ log_created
    /\ log_file' = log_file + 1
    /\ pub' = [pub EXCEPT ![t] = Append(@, Pub("log", 0))]
    /\ pc' = [pc EXCEPT ![t] = After("log")]
    /\ UNCHANGED <<config, clock, region, heap_lock, vm_aborted,
                   last_sample_millis, status, timestamp, regions_data,
                   current, last, idx, wins, batch, status_view, sampled>>

\* a variant that leaves the scope without releasing the lock
Unlock_KeepsLock(t) ==
    /\ ~vm_aborted
    /\ pc[t] = "unlock"
    /\ pc' = [pc EXCEPT ![t] = After("unlock")]
    /\ idx' = [idx EXCEPT ![t] = 0]
    /\ UNCHANGED <<config, clock, region, heap_lock, vm_aborted,
                   last_sample_millis, sinks, current, last, history>>

\* the end of the locker's scope
Unlock(t) ==
    /\ ~vm_aborted
    /\ pc[t] = "unlock"
    /\ heap_lock' = 0
    /\ pc' = [pc EXCEPT ![t] = After("unlock")]
    /\ idx' = [idx EXCEPT ![t] = 0]
    /\ UNCHANGED <<config, clock, region, vm_aborted, last_sample_millis,
                   sinks, current, last, history>>

\* a statement of the pass goes through a pointer the constructor never
\* set (_status, _timestamp, _regions_data or _log_file): undefined
\* behaviour, which either stops the VM or writes somewhere that is no
\* counter and no log, after which the pass goes on
UseUncreated(t) ==
    /\ ~vm_aborted
    /\ \/ pc[t] \in {"status", "timestamp", "regions"} /\ ~perf_created
       \/ pc[t] = "log" /\ ~log_created
    /\ \/ /\ vm_aborted' = TRUE
          /\ pc' = [pc EXCEPT ![t] = "aborted"]
          /\ UNCHANGED idx
       \/ /\ UNCHANGED vm_aborted
          /\ IF pc[t] = "regions"
             THEN /\ idx' = [idx EXCEPT ![t] = @ + 1]
                  /\ pc' = [pc EXCEPT ![t] =
                               IF idx[t] + 1 < NumRegions THEN "regions"
                                                          ELSE AfterRegions]
             ELSE /\ pc' = [pc EXCEPT ![t] = After(pc[t])]
                  /\ UNCHANGED idx
    /\ UNCHANGED <<config, clock, region, heap_lock, last_sample_millis,
                   sinks, current, last, history>>

\* update() returns to its caller
Return(t) ==
    /\ ~vm_aborted
    /\ pc[t] = "return"
    /\ pc' = [pc EXCEPT ![t] = "idle"]
    /\ pub' = [pub EXCEPT ![t] = <<>>]
    /\ UNCHANGED <<config, clock, region, heap_lock, vm_aborted,
                   last_sample_millis, sinks, current, last, idx, wins,
                   batch, status_view, sampled>>

(***************************************************************************)
(* Inputs: the collector states and region contents the runs draw from.    *)
(***************************************************************************)
View(idle, evac, upd, mark, gen, active, oldmark, degen, full) ==
    [is_idle |-> idle,
     is_evacuation_in_progress |-> evac,
     is_update_refs_in_progress |-> upd,
     is_concurrent_mark_in_progress |-> mark,
     is_generational |-> gen,
     active_generation |-> active,
     is_concurrent_old_mark_in_progress |-> oldmark,
     is_degenerated_gc_in_progress |-> degen,
     is_full_gc_in_progress |-> full]

\* the collector states of the concurrent runs: idle, old marking, and
\* evacuation in a full collection
FewViews ==
    {IdleView,
     View(FALSE, FALSE, FALSE, TRUE, TRUE, "OLD", TRUE, FALSE, FALSE),
     View(FALSE, TRUE, FALSE, FALSE, FALSE, "GLOBAL", FALSE, FALSE, TRUE)}

\* the region contents of the concurrent runs, which are about the gate and
\* not about the region words
FewSamples == {Sample(50, 25, 0, 0, 0, 0, 1, 1, 2)}

\* region contents for the runs about the region words: empty, half used,
\* odd fractions, full, usage above the region's capacity, and an age, an
\* affiliation and a state above their field widths
ManySamples ==
    {ZeroSample,
     Sample(50, 25, 0, 0, 0, 0, 0, 0, 1),
     Sample(33, 7, 10, 3, 1, 19, 3, 1, 2),
     Sample(150, 100, 0, 63, 90, 127, 31, 2, 9),
     Sample(0, 0, 0, 0, 0, 0, 40, 5, 70)}

(***************************************************************************)
(* The next-state relation over a set of calling threads.                  *)
(***************************************************************************)
Step(callers, limit, views, samples) ==
    \/ Tick(limit)
    \/ Mutate(samples)
    \/ \E t \in callers : Enter(t)
    \/ \E t \in callers : ReadLast(t)
    \/ \E t \in callers : Gate(t)
    \/ \E t \in callers : UpdateStatus(t, views)
    \/ \E t \in callers : UpdateTimestamp(t)
    \/ \E t \in callers : Lock(t)
    \/ \E t \in callers : SampleRegion(t)
    \/ \E t \in callers : WriteSnapshot(t)
    \/ \E t \in callers : Unlock(t)
    \/ \E t \in callers : Return(t)

\* concurrent callers, in a product build
Init == InitWith({FALSE}, {100}, FewSamples)
Next == Step(Threads, MaxTime, FewViews, FewSamples)
Spec == Init /\ [][Next]_vars

\* one caller, every collector state, product and debug builds
InitStatus == InitWith(BOOLEAN, {100}, {ZeroSample})
NextStatus == Step({1}, MaxTimeSeq, HeapViews, {ZeroSample})
SpecStatus == InitStatus /\ [][NextStatus]_vars

\* one caller, many region contents
InitRegions == InitWith({FALSE}, {100, 64}, ManySamples)
NextRegions == Step({1}, MaxTimeSeq, {IdleView}, ManySamples)
SpecRegions == InitRegions /\ [][NextRegions]_vars

\* one caller, every combination of the three flags
InitFlags == InitOf(BOOLEAN, {FALSE}, {100, 64}, FewSamples)
NextFlags ==
    \/ Step({1}, MaxTimeSeq, {IdleView}, FewSamples)
    \/ UseUncreated(1)
SpecFlags == InitFlags /\ [][NextFlags]_vars

\* the collector states of the runs about termination: idle, and not idle
\* in none of the three phases
LiveViews ==
    {IdleView,
     View(FALSE, FALSE, FALSE, FALSE, FALSE, "GLOBAL", FALSE, FALSE, FALSE)}

\* every statement of a pass is eventually executed by its thread, and a
\* thread that waits for the heap lock eventually gets it
Fairness ==
    \A t \in Threads :
        /\ WF_vars(UpdateStatus(t, LiveViews))
        /\ WF_vars(UpdateTimestamp(t))
        /\ SF_vars(Lock(t))
        /\ WF_vars(SampleRegion(t))
        /\ WF_vars(WriteSnapshot(t))
        /\ WF_vars(Unlock(t))

\* concurrent callers under fair scheduling, product and debug builds
InitLive == InitWith(BOOLEAN, {100}, FewSamples)
NextLive == Step(Threads, MaxTime, LiveViews, FewSamples)
SpecLive == InitLive /\ [][NextLive]_vars /\ Fairness

(***************************************************************************)
(* Properties.                                                             *)
(***************************************************************************)
InPass == {"status", "timestamp", "lock", "regions", "log", "unlock"}
AllReturned == \A t \in Threads : pc[t] \in {"idle", "return"}

IsPrefix(s, t) ==
    /\ Len(s) <= Len(t)
    /\ \A k \in 1..Len(s) : s[k] = t[k]

\* C1: when several overlapping calls all read the same time, and that time
\* is past the interval since the gate timestamp, exactly one of them performs
\* a sampling pass: never more than one, and one once they have all returned.
C1_OnePassPerCrossing ==
    /\ batch.crossing => batch.passes <= 1
    /\ (batch.crossing /\ batch.several /\ AllReturned) => batch.passes = 1

C1_Witness ==
    /\ batch.crossing /\ batch.several /\ AllReturned
    /\ batch.passes = 1
    /\ \E t \in Threads : pc[t] = "return" /\ pub[t] = <<>>

\* C2: any two calls that win the gate have `current` values more than
\* ShenandoahRegionSamplingRate apart.
C2_WinsAnIntervalApart ==
    \A j, k \in DOMAIN wins :
        j < k => wins[k] - wins[j] > ShenandoahRegionSamplingRate

C2_Witness == Len(wins) >= 2

\* C3: at most one thread is inside a sampling pass at any time.
C3_OnePassAtATime ==
    Cardinality({t \in Threads : pc[t] \in InPass}) <= 1

\* C4: a call that does not win the gate (the interval has not passed, the
\* boundary included, or the gate timestamp is no longer the value it read)
\* returns at once and changes neither the gate timestamp, nor a counter, nor
\* the log, nor the heap lock.
C4_LoserChangesNothing ==
    [][\A t \in Threads :
          (/\ pc[t] = "gate"
           /\ pc'[t] # "gate"
           /\ \/ current[t] - last[t] <= ShenandoahRegionSamplingRate
              \/ last_sample_millis # last[t])
          => /\ pc'[t] = "return"
             /\ UNCHANGED <<last_sample_millis, sinks, heap_lock>>]_vars

C4_Witness ==
    \E t \in Threads :
        /\ pc[t] = "gate"
        /\ current[t] - last[t] > ShenandoahRegionSamplingRate
        /\ last_sample_millis # last[t]

\* C5: with ShenandoahRegionSampling off no step changes the gate timestamp,
\* a counter, the log or the heap lock, and no call gets past the flag test.
C5_DisabledChangesNothing ==
    [][~ShenandoahRegionSampling
          => /\ UNCHANGED <<last_sample_millis, sinks, heap_lock>>
             /\ \A t \in Threads : pc'[t] \in {"idle", "return"}]_vars

C5_Witness ==
    /\ ~ShenandoahRegionSampling
    /\ clock > ShenandoahRegionSamplingRate
    /\ \E t \in Threads : pc[t] = "return"

\* the order of C6 as claimed: timestamp, status, regions, log
ClaimedOrder ==
    <<Pub("timestamp", 0), Pub("status", 0)>>
    \o [k \in 1..NumRegions |-> Pub("region", k - 1)]
    \o (IF ShenandoahLogRegionSampling THEN <<Pub("log", 0)>> ELSE <<>>)

\* the order of the code: status, timestamp, regions, log
CodeOrder ==
    <<Pub("status", 0), Pub("timestamp", 0)>>
    \o [k \in 1..NumRegions |-> Pub("region", k - 1)]
    \o (IF ShenandoahLogRegionSampling THEN <<Pub("log", 0)>> ELSE <<>>)

\* C6 as claimed: a pass writes the timestamp counter, then the status
\* counter, then the region counters, then the log.
C6_TimestampFirst ==
    \A t \in Threads : IsPrefix(pub[t], ClaimedOrder)

\* C6 amended: a pass writes the status counter, then the timestamp counter,
\* then the region counters in index order while it holds the heap lock, then
\* (if logging is on) the log; when it leaves the locked scope it has made
\* all of these publications.
C6_StatusFirst ==
    \A t \in Threads :
        /\ IsPrefix(pub[t], CodeOrder)
        /\ (Len(pub[t]) > 2 /\ pc[t] \in InPass) => heap_lock = t
        /\ pc[t] = "unlock" => pub[t] = CodeOrder

C6_Witness ==
    \E t \in Threads :
        /\ pc[t] = "unlock"
        /\ ShenandoahLogRegionSampling
        /\ pub[t] = CodeOrder
        /\ pub[t][Len(pub[t])].what = "log"

\* the collector state a status word is meant to carry: the phase, the
\* active generation and the three flags
StatusFields(v) ==
    <<encode_phase(v), v.active_generation,
      v.is_concurrent_old_mark_in_progress,
      v.is_degenerated_gc_in_progress, v.is_full_gc_in_progress>>

\* generational, not idle, and in one of the three phases
BusyGenerational(v) ==
    ~v.is_idle /\ v.is_generational /\ encode_phase(v) \in 1..3

\* C7: two non-idle collector states that differ in phase, active generation
\* or a flag never get the same status word (stated here for generational
\* states in a known phase only, where every field is encoded).
C7_StatusLossless ==
    \A other \in HeapViews :
        (/\ BusyGenerational(status_view)
         /\ BusyGenerational(other)
         /\ StatusFields(status_view) # StatusFields(other))
        => status # encode_heap_status(other)

\* C8: in a generational, non-idle state the lane of the active generation
\* holds the phase ordinal, and bit 2 is set while old marking is in progress.
C8_LaneHoldsPhase ==
    BusyGenerational(status_view)
    => /\ Extract(BitsOf(status), 3,
                  get_generation_shift(status_view.active_generation))
            = encode_phase(status_view)
       /\ status_view.is_concurrent_old_mark_in_progress => 2 \in BitsOf(status)

\* C9: an idle collector state is encoded as the zero word whatever the other
\* answers are, and the status counter a pass publishes while the collector
\* is idle is 0.
C9_IdleIsZero ==
    /\ \A v \in HeapViews : v.is_idle => encode_heap_status(v) = 0
    /\ status_view.is_idle => status = 0

C9_Witness ==
    /\ pc[1] = "timestamp"
    /\ status_view.is_idle
    /\ status_view.is_generational
    /\ status_view.active_generation = "OLD"
    /\ status_view.is_concurrent_old_mark_in_progress
    /\ status_view.is_degenerated_gc_in_progress
    /\ status_view.is_full_gc_in_progress
    /\ status = 0

\* what an external reader decodes from a region word
Decoded(word) ==
    [used |-> Extract(word, PERCENT_MASK, USED_SHIFT),
     live |-> Extract(word, PERCENT_MASK, LIVE_SHIFT),
     tlab |-> Extract(word, PERCENT_MASK, TLAB_SHIFT),
     gclab |-> Extract(word, PERCENT_MASK, GCLAB_SHIFT),
     plab |-> Extract(word, PERCENT_MASK, PLAB_SHIFT),
     shared |-> Extract(word, PERCENT_MASK, SHARED_SHIFT),
     age |-> Extract(word, AGE_MASK, AGE_SHIFT),
     affiliation |-> Extract(word, AFFILIATION_MASK, AFFILIATION_SHIFT),
     state |-> Extract(word, STATUS_MASK, STATUS_SHIFT)]

\* floor(100 * raw / region_size_bytes), cut to the 7 bits of a ratio field
Percent(raw) == ((100 * raw) \div region_size_bytes) % (PERCENT_MASK + 1)

\* the word of a region with values s, as a reader decodes it
Expected(s) ==
    [used |-> Percent(s.used), live |-> Percent(s.live),
     tlab |-> Percent(s.tlab), gclab |-> Percent(s.gclab),
     plab |-> Percent(s.plab), shared |-> Percent(s.shared),
     age |-> s.age % (AGE_MASK + 1),
     affiliation |-> s.affiliation % (AFFILIATION_MASK + 1),
     state |-> s.state % (STATUS_MASK + 1)]

RegionWrites(t) == SelectSeq(pub[t], LAMBDA e : e.what = "region")

\* C10: when a pass has finished its loop, counter i holds the word of region
\* i's own values as the pass read them, each ratio floor(100 * raw /
\* region_size_bytes), for every i in 0..N-1, and the pass has written each of
\* the N counters exactly once.
C10_CountersHoldOwnRegion ==
    \A t \in Threads :
        pc[t] \in {"log", "unlock"}
        => /\ \A i \in Regions :
                 /\ sampled[i] = region[i]
                 /\ Decoded(regions_data[i]) = Expected(region[i])
           /\ RegionWrites(t) = [k \in 1..NumRegions |-> Pub("region", k - 1)]

C10_Witness ==
    \E t \in Threads :
        /\ pc[t] = "unlock"
        /\ region_size_bytes = 100
        /\ region[0] = Sample(50, 25, 0, 0, 0, 0, 0, 0, 1)
        /\ Decoded(regions_data[0]).used = 50
        /\ Decoded(regions_data[0]).live = 25
        /\ \A i \in Regions \ {0} :
              region[i] = ZeroSample /\ regions_data[i] = {}

\* the ratios of a region as the pass computes them, before any masking
Ratios(s) ==
    [used |-> Ratio(s.used, region_size_bytes),
     live |-> Ratio(s.live, region_size_bytes),
     tlab |-> Ratio(s.tlab, region_size_bytes),
     gclab |-> Ratio(s.gclab, region_size_bytes),
     plab |-> Ratio(s.plab, region_size_bytes),
     shared |-> Ratio(s.shared, region_size_bytes)]

RatioFields == {"used", "live", "tlab", "gclab", "plab", "shared"}

\* the bit positions of each field of the region word
FieldBits ==
    [used |-> {b + USED_SHIFT : b \in BitsOf(PERCENT_MASK)},
     live |-> {b + LIVE_SHIFT : b \in BitsOf(PERCENT_MASK)},
     tlab |-> {b + TLAB_SHIFT : b \in BitsOf(PERCENT_MASK)},
     gclab |-> {b + GCLAB_SHIFT : b \in BitsOf(PERCENT_MASK)},
     plab |-> {b + PLAB_SHIFT : b \in BitsOf(PERCENT_MASK)},
     shared |-> {b + SHARED_SHIFT : b \in BitsOf(PERCENT_MASK)},
     age |-> {b + AGE_SHIFT : b \in BitsOf(AGE_MASK)},
     affiliation |-> {b + AFFILIATION_SHIFT : b \in BitsOf(AFFILIATION_MASK)},
     state |-> {b + STATUS_SHIFT : b \in BitsOf(STATUS_MASK)}]

\* C11: the nine fields of a region word lie on disjoint bits of the 64-bit
\* word, so a reader gets back every field that fits its width exactly (a
\* ratio in 0..100, an age, affiliation or state within its mask) whatever
\* the other fields hold, and gets a ratio above 127 back modulo 128 without
\* any spill into a neighbouring field.
C11_RoundTrip ==
    /\ \A f, g \in DOMAIN FieldBits :
          /\ FieldBits[f] \subseteq WordBits
          /\ f # g => FieldBits[f] \cap FieldBits[g] = {}
    /\ \A t \in Threads :
          pc[t] \in {"log", "unlock"}
          => \A i \in Regions :
                LET s == sampled[i]
                    d == Decoded(regions_data[i])
                IN  /\ \A f \in RatioFields :
                          /\ Ratios(s)[f] <= 100 => d[f] = Ratios(s)[f]
                          /\ Ratios(s)[f] > PERCENT_MASK
                             => d[f] = Ratios(s)[f] % 128
                    /\ s.age <= AGE_MASK => d.age = s.age
                    /\ s.affiliation <= AFFILIATION_MASK
                       => d.affiliation = s.affiliation
                    /\ s.state <= STATUS_MASK => d.state = s.state

C11_Witness ==
    /\ pc[1] = "unlock"
    /\ region_size_bytes = 100
    /\ sampled[0] = Sample(150, 100, 0, 63, 90, 127, 31, 2, 9)
    /\ Decoded(regions_data[0]) =
          [used |-> 22, live |-> 100, tlab |-> 0, gclab |-> 63, plab |-> 90,
           shared |-> 127, age |-> 31, affiliation |-> 2, state |-> 9]

\* the counters the pass of thread t has written so far
Written(t) ==
    {i \in Regions : \E k \in DOMAIN pub[t] : pub[t][k] = Pub("region", i)}

\* C12 as claimed: a value that does not fit its bits is never masked
\* silently: no region counter is published from such a value.
C12_NeverMasked ==
    \A t \in Threads :
        \A i \in Written(t) : Fits(sampled[i], region_size_bytes)

\* C12 amended: a ratio, age, affiliation or state that does not fit its bits
\* is masked to the width of its field without any assertion: the pass goes
\* on, and the region counter is published with the truncated value.
C12_MaskedSilently ==
    \A t \in Threads :
        /\ pc[t] # "aborted"
        /\ \A i \in Written(t) :
              ~Fits(sampled[i], region_size_bytes)
              => /\ regions_data[i] =
                       encode_region(sampled[i], region_size_bytes)
                 /\ Decoded(regions_data[i]) = Expected(sampled[i])
                 /\ Decoded(regions_data[i]) #
                       [f \in DOMAIN FieldBits |->
                           IF f \in RatioFields THEN Ratios(sampled[i])[f]
                                                ELSE sampled[i][f]]

C12_Witness ==
    /\ pc[1] = "unlock"
    /\ ~vm_aborted
    /\ region_size_bytes = 100
    /\ sampled[0] = Sample(150, 100, 0, 63, 90, 127, 31, 2, 9)
    /\ sampled[1] = Sample(0, 0, 0, 0, 0, 0, 40, 5, 70)
    /\ Written(1) = Regions
    /\ Decoded(regions_data[0]).used = 22
    /\ Decoded(regions_data[1]).age = 8
    /\ Decoded(regions_data[1]).affiliation = 1
    /\ Decoded(regions_data[1]).state = 6

\* the statements inside the scope of the ShenandoahHeapLocker
Locked == {"regions", "log", "unlock"}

\* C13: a thread reads region statistics, writes region counters and appends
\* to the log only while it holds the heap lock; at most one thread is inside
\* the locked scope at a time; and a thread outside that scope, in particular
\* one whose update() has returned, does not hold the lock.
C13_UnderHeapLock ==
    /\ \A t \in Threads : pc[t] \in Locked <=> heap_lock = t
    /\ Cardinality({t \in Threads : pc[t] \in Locked}) <= 1
    /\ \A t \in Threads :
          (Written(t) # {} /\ pc[t] # "return") => heap_lock = t
    /\ (\A t \in Threads : pc[t] \notin Locked) => heap_lock = 0

C13_Witness ==
    \E t, u \in Threads :
        /\ t # u
        /\ pc[t] = "regions" /\ idx[t] = 1 /\ heap_lock = t
        /\ Written(t) = {0}
        /\ pc[u] = "lock"

\* the passes that have not yet reached the end of their log statement
BeforeLogDone ==
    {t \in Threads : pc[t] \in {"status", "timestamp", "lock", "regions", "log"}}

\* C15: the log is appended to once per pass when logging is on, after the
\* N region counters of that pass, and never when logging is off or by a
\* call that did not win the gate; the number of appends never exceeds the
\* number of passes.
C15_LogOncePerPass ==
    /\ log_file <= Len(wins)
    /\ ~ShenandoahLogRegionSampling
       => /\ log_file = 0
          /\ \A t \in Threads : pc[t] # "log"
    /\ ShenandoahLogRegionSampling
       => log_file = Len(wins) - Cardinality(BeforeLogDone)
    /\ \A t \in Threads :
          LET logs == SelectSeq(pub[t], LAMBDA e : e.what = "log")
          IN  /\ Len(logs) <= 1
              /\ Len(logs) = 1
                 => /\ ShenandoahLogRegionSampling
                    /\ pub[t][Len(pub[t])] = Pub("log", 0)
                    /\ Written(t) = Regions
                    /\ Len(RegionWrites(t)) = NumRegions

C15_Witness ==
    /\ ShenandoahLogRegionSampling
    /\ Len(wins) = 2
    /\ log_file = 2
    /\ \E t \in Threads : pc[t] = "return" /\ pub[t] = <<>>
    /\ \E t \in Threads : pc[t] = "unlock" /\ pub[t] = CodeOrder

\* C19: _last_sample_millis starts at 0; a step changes it only as the
\* compare-and-swap of a caller whose `last` is its present value, to that
\* caller's `current`, which is more than ShenandoahRegionSamplingRate above
\* it; and a caller whose `last` is no longer its value leaves the gate
\* without a pass and without changing it.
C19_GateOnlyAdvances ==
    /\ last_sample_millis = 0
    /\ [][/\ last_sample_millis' # last_sample_millis
             => /\ last_sample_millis' - last_sample_millis
                      > ShenandoahRegionSamplingRate
                /\ \E t \in Threads :
                      /\ pc[t] = "gate" /\ pc'[t] = PassOrder[1]
                      /\ last[t] = last_sample_millis
                      /\ current[t] = last_sample_millis'
          /\ \A t \in Threads :
                (/\ pc[t] = "gate" /\ pc'[t] # "gate"
                 /\ last[t] # last_sample_millis)
                => /\ pc'[t] = "return"
                   /\ last_sample_millis' = last_sample_millis]_vars

C19_Witness ==
    /\ Len(wins) >= 2
    /\ last_sample_millis = wins[Len(wins)]
    /\ \E t \in Threads :
          /\ pc[t] = "gate"
          /\ last[t] = 0
          /\ IntervalPassed(current[t], last[t])
          /\ last_sample_millis - last[t] > 2 * ShenandoahRegionSamplingRate

\* the collector says it is not idle, and is in none of the three phases
UnknownPhase(v) ==
    /\ ~v.is_idle
    /\ ~v.is_evacuation_in_progress
    /\ ~v.is_update_refs_in_progress
    /\ ~v.is_concurrent_mark_in_progress

\* C16 as claimed: no status word is ever returned, and so none published,
\* for a collector that is not idle and in none of the three phases.
C16_NoWordForUnknownPhase == ~UnknownPhase(status_view)

\* C16 amended: in a debug build a collector that is not idle and in none of
\* the three phases makes encode_heap_status fail its assertion, in either
\* mode, before the pass has published anything; in a product build the
\* assertion is compiled out and the word is returned with phase ordinal 0.
C16_AssertsInDebugBuild ==
    /\ debug_build => ~UnknownPhase(status_view)
    /\ vm_aborted
       => /\ debug_build
          /\ \E t \in Threads : pc[t] = "aborted" /\ pub[t] = <<>>
    /\ \A t \in Threads : pc[t] = "aborted" => vm_aborted
    /\ UnknownPhase(status_view)
       => /\ BitsOf(status) \subseteq {2, 6, 7}
          /\ 2 \in BitsOf(status)
             <=> (/\ status_view.is_generational
                  /\ status_view.is_concurrent_old_mark_in_progress)

C16_Witness ==
    /\ debug_build
    /\ vm_aborted
    /\ pc[1] = "aborted"
    /\ wins # <<>>
    /\ pub[1] = <<>>
    /\ status = 0

\* C17: in the status word of a collector that is not idle, bit 6 is set
\* exactly when a degenerated cycle is in progress and bit 7 exactly when a
\* full collection is; no bit above 7 is set.
C17_ModeBits ==
    ~status_view.is_idle
    => /\ 6 \in BitsOf(status) <=> status_view.is_degenerated_gc_in_progress
       /\ 7 \in BitsOf(status) <=> status_view.is_full_gc_in_progress
       /\ BitsOf(status) \subseteq 0..7
       /\ status = ValueOf(BitsOf(status))

C17_Witness ==
    /\ ~status_view.is_idle
    /\ status_view.is_generational
    /\ status_view.active_generation = "YOUNG"
    /\ status_view.is_update_refs_in_progress
    /\ ~status_view.is_evacuation_in_progress
    /\ status_view.is_concurrent_old_mark_in_progress
    /\ status_view.is_degenerated_gc_in_progress
    /\ ~status_view.is_full_gc_in_progress
    /\ status = 116

\* C18: for a collector that is neither generational nor idle, bits 0-1 of
\* the status word are the phase ordinal, evacuation (2) taking priority
\* over update-references (3) and that over concurrent marking (1), and bits
\* 2-5 are clear whatever the active generation and the old-mark flag.
C18_NonGenerationalPhase ==
    (~status_view.is_idle /\ ~status_view.is_generational)
    => /\ Extract(BitsOf(status), 3, 0) =
             (IF status_view.is_evacuation_in_progress THEN 2
              ELSE IF status_view.is_update_refs_in_progress THEN 3
              ELSE IF status_view.is_concurrent_mark_in_progress THEN 1
              ELSE 0)
       /\ BitsOf(status) \cap (2..5) = {}

C18_Witness ==
    /\ ~status_view.is_idle
    /\ ~status_view.is_generational
    /\ status_view.is_evacuation_in_progress
    /\ status_view.is_update_refs_in_progress
    /\ status_view.is_concurrent_mark_in_progress
    /\ status_view.active_generation = "OLD"
    /\ status_view.is_concurrent_old_mark_in_progress
    /\ ~status_view.is_degenerated_gc_in_progress
    /\ ~status_view.is_full_gc_in_progress
    /\ status = 2

C20_SinksCreated ==
    \A t \in Threads :
        /\ pc[t] \in InPass => perf_created
        /\ pc[t] = "log" => log_created

====
